---- MODULE Spec2Model ----
(***************************************************************************)
(* Model of the contact backend in src/main.py: the bearer-token gate      *)
(* (validate_token), the JSON file store (load_contacts / save_contacts)   *)
(* and the three handlers create_contact, get_contacts and                 *)
(* delete_all_contacts, served by one uvicorn event loop.                  *)
(*                                                                         *)
(* Text is modelled as a sequence of one-character strings; the contents   *)
(* of contacts.json as a sequence of JSON tokens, so that a partly written *)
(* file is a prefix of the full text and parsing it can fail.              *)
(***************************************************************************)
EXTENDS Integers, Sequences, FiniteSets, TLC

\* ------------------------------------------------------------------ bounds
NReq == 3
Reqs == 1..NReq
\* header and secret texts are built from at most this many pieces
MaxHeaderPieces == 3
MaxSecretPieces == 2
\* a contacts.json found at start holds at most this many records
MaxStored == 2

\* ------------------------------------------------------------ text helpers
RECURSIVE Flatten(_)
Flatten(ss) == IF ss = <<>> THEN <<>> ELSE Head(ss) \o Flatten(Tail(ss))

Bearer == <<"B", "e", "a", "r", "e", "r", " ">>

\* str.startswith
startswith(s, p) == Len(s) >= Len(p) /\ SubSeq(s, 1, Len(p)) = p

\* str.replace(old, new): every non-overlapping occurrence, left to right
RECURSIVE replace(_, _, _)
replace(s, old, new) ==
    IF s = <<>> THEN <<>>
    ELSE IF startswith(s, old)
         THEN new \o replace(SubSeq(s, Len(old) + 1, Len(s)), old, new)
         ELSE <<Head(s)>> \o replace(Tail(s), old, new)

\* ---------------------------------------------------------------- AuthGate
\* A header is [present |-> FALSE] (no Authorization header, Header(None))
\* or [present |-> TRUE, value |-> text].
NoHeader == [present |-> FALSE, value |-> <<>>]
Hdr(text) == [present |-> TRUE, value |-> text]

MsgRequired == "Authorization header is required"
MsgFormat == "Invalid authorization format. Use 'Bearer <token>'"
MsgInvalid == "Invalid token"

\* the scheme check made first: an empty header is reported as malformed
validate_tokenMutant(authorization, secret) ==
    IF authorization.present /\ ~startswith(authorization.value, Bearer)
    THEN [ok |-> FALSE, status |-> 401, detail |-> MsgFormat, token |-> <<>>]
    ELSE IF ~authorization.present
    THEN [ok |-> FALSE, status |-> 401, detail |-> MsgRequired, token |-> <<>>]
    ELSE LET token == replace(authorization.value, Bearer, <<>>) IN
         IF token # secret
         THEN [ok |-> FALSE, status |-> 401, detail |-> MsgInvalid, token |-> <<>>]
         ELSE [ok |-> TRUE, status |-> 200, detail |-> "", token |-> token]

\* validate_token: [ok, status, detail, token]
validate_token(authorization, secret) ==
    IF ~authorization.present \/ authorization.value = <<>>
    THEN [ok |-> FALSE, status |-> 401, detail |-> MsgRequired, token |-> <<>>]
    ELSE IF ~startswith(authorization.value, Bearer)
    THEN [ok |-> FALSE, status |-> 401, detail |-> MsgFormat, token |-> <<>>]
    ELSE LET token == replace(authorization.value, Bearer, <<>>) IN
         IF token # secret
         THEN [ok |-> FALSE, status |-> 401, detail |-> MsgInvalid, token |-> <<>>]
         ELSE [ok |-> TRUE, status |-> 200, detail |-> "", token |-> token]

\* ------------------------------------------------------------------- Store
\* ContactRecord as stored: id, createdAt and the request's fields.  name
\* stands for the required text fields (name, email, subject, message),
\* phone for the optional ones (phone, company); None is JSON null.
None == "None"
\* bodies a client may post; "Noel" stands for a text holding a character
\* that takes more than one byte in UTF-8 (ensure_ascii=False writes it raw)
Payloads == { [name |-> "Ann", phone |-> None, isDeleted |-> FALSE],
              [name |-> "Noel", phone |-> "555", isDeleted |-> TRUE] }
MultiByte(rec) == rec.name = "Noel"

\* JSON text as tokens
Tok(tag) == [tag |-> tag, val |-> <<>>]
ObjTok(rec) == [tag |-> "obj", val |-> <<rec>>]
CutTok == Tok("cut")          \* an object cut off inside its text
BadByteTok == Tok("badbyte")  \* a multi-byte character cut off inside

\* json.dump(contacts, f, indent=2, ensure_ascii=False)
RECURSIVE dumpItems(_)
dumpItems(contacts) ==
    IF contacts = <<>> THEN <<>>
    ELSE IF Len(contacts) = 1 THEN <<ObjTok(contacts[1])>>
    ELSE <<ObjTok(contacts[1]), Tok(",")>> \o dumpItems(Tail(contacts))
\* the records written one after another, not as one array
json_dumpMutant(contacts) == dumpItems(contacts)
json_dump(contacts) == <<Tok("[")>> \o dumpItems(contacts) \o <<Tok("]")>>

\* json.load on a text that decoded as UTF-8: [ok, value]
json_load(toks) ==
    IF Len(toks) < 2 \/ toks[1] # Tok("[") \/ toks[Len(toks)] # Tok("]")
    THEN [ok |-> FALSE, value |-> <<>>]
    ELSE LET inner == SubSeq(toks, 2, Len(toks) - 1) IN
         IF inner = <<>> THEN [ok |-> TRUE, value |-> <<>>]
         ELSE IF /\ Len(inner) % 2 = 1
                 /\ \A i \in 1..Len(inner) :
                       IF i % 2 = 1 THEN inner[i].tag = "obj"
                                    ELSE inner[i] = Tok(",")
              THEN [ok |-> TRUE,
                    value |-> [i \in 1..((Len(inner) + 1) \div 2) |->
                                  inner[2 * i - 1].val[1]]]
              ELSE [ok |-> FALSE, value |-> <<>>]

\* the file at CONTACTS_FILE: [exists, text]
Absent == [exists |-> FALSE, text |-> <<>>]
FileOf(toks) == [exists |-> TRUE, text |-> toks]

\* load_contacts: [raised, value].  A byte sequence that is not UTF-8 makes
\* f.read() raise UnicodeDecodeError, which the except clause does not name.
load_contacts(file) ==
    IF ~file.exists THEN [raised |-> FALSE, value |-> <<>>]
    ELSE IF \E i \in 1..Len(file.text) : file.text[i] = BadByteTok
    THEN [raised |-> TRUE, value |-> <<>>]
    ELSE LET parsed == json_load(file.text) IN
         IF parsed.ok THEN [raised |-> FALSE, value |-> parsed.value]
         ELSE [raised |-> FALSE, value |-> <<>>]

\* what the file can hold after part of the text was flushed: a proper
\* prefix of the tokens, possibly followed by a piece of the next object
PartialTexts(toks) ==
    LET Pre(k) == SubSeq(toks, 1, k) IN
    { Pre(k) : k \in 0..(Len(toks) - 1) }
    \cup { Pre(k) \o <<CutTok>> :
             k \in { j \in 0..(Len(toks) - 1) : toks[j + 1].tag = "obj" } }
    \cup { Pre(k) \o <<BadByteTok>> :
             k \in { j \in 0..(Len(toks) - 1) :
                      /\ toks[j + 1].tag = "obj"
                      /\ MultiByte(toks[j + 1].val[1]) } }

\* max(c["id"] for c in contacts)
MaxId(contacts) ==
    CHOOSE m \in { contacts[i].id : i \in 1..Len(contacts) } :
        \A i \in 1..Len(contacts) : contacts[i].id <= m
\* the number of records taken for the greatest identifier
next_idLenMutant(contacts) == Len(contacts) + 1
\* the increment left out
next_idMutant(contacts) == IF contacts = <<>> THEN 1 ELSE MaxId(contacts)
\* next_id: max + 1, or 1 when `contacts` is empty
next_id(contacts) == IF contacts = <<>> THEN 1 ELSE MaxId(contacts) + 1

\* ------------------------------------------------------------------- state
VARIABLES
    API_TOKEN,      \* os.getenv("ACCESS_TOKEN") as read at import
    CONTACTS_FILE,  \* the file contacts.json
    clock,          \* datetime.now(): successive readings differ
    loop,           \* the request whose handler body the event loop runs, or 0
    pc,             \* per request: idle, body, save, opened, flushed, done
    kind,           \* per request: create, list, clear, hello
    header,         \* per request: its Authorization header
    body,           \* per request: the posted ContactRequest
    contacts,       \* per request: the handler's local list `contacts`
    deleted_contacts, \* per request: delete_all_contacts' copy
    resp,           \* per request: the response sent
    acked,          \* history: ids returned by successful creates, in order
    lastSave        \* history: the latest save_contacts call

vars == <<API_TOKEN, CONTACTS_FILE, clock, loop, pc, kind, header, body,
          contacts, deleted_contacts, resp, acked, lastSave>>

Unset == [present |-> FALSE, value |-> <<>>]
Secret == <<"t">>
EnvValues == { Unset, Hdr(Secret) }

\* the headers sent to the handlers: one wrong token and the right one (the
\* gate is explored over all header texts in SpecAuth)
Headers == { Hdr(Bearer \o <<"x">>), Hdr(Bearer \o Secret) }
Kinds == { "create", "list", "clear", "hello" }

\* contacts.json as the process may find it at start
InitialFiles == { Absent, FileOf(<<Tok("["), BadByteTok>>) }

NoResp == [status |-> 0, detail |-> "", records |-> <<>>, deleted_count |-> 0]
Resp(status, detail, records, n) ==
    [status |-> status, detail |-> detail, records |-> records, deleted_count |-> n]
NoSave == [by |-> 0, phase |-> "none", prior |-> <<>>, new |-> <<>>]

\* (the module loaded without the `if not API_TOKEN` check)
ServingMutant == TRUE

\* `if not API_TOKEN: raise ValueError(...)`: the module fails to import
Serving == API_TOKEN.present /\ API_TOKEN.value # <<>>

Init ==
    /\ API_TOKEN \in EnvValues
    /\ CONTACTS_FILE \in InitialFiles
    /\ clock = 1
    /\ loop = 0
    /\ pc = [r \in Reqs |-> "idle"]
    /\ kind = [r \in Reqs |-> "hello"]
    /\ header = [r \in Reqs |-> NoHeader]
    /\ body = [r \in Reqs |-> CHOOSE p \in Payloads : p.name = "Ann"]
    /\ contacts = [r \in Reqs |-> <<>>]
    /\ deleted_contacts = [r \in Reqs |-> <<>>]
    /\ resp = [r \in Reqs |-> NoResp]
    /\ acked = <<>>
    /\ lastSave = NoSave

\* handler bodies free to overlap, as plain `def` endpoints run in worker
\* threads would be
EventLoopFreeMutant(r) == TRUE
\* An `async def` endpoint runs on the event loop and its body has no await:
\* a handler body starts only when no other handler body is running.
EventLoopFree(r) == loop = 0

\* the dependency left off the DELETE route
GateAppliesMutant(k) == k \in {"create", "list"}
\* the routes whose signature carries `token: str = Depends(validate_token)`
GateApplies(k) == k \in {"create", "list", "clear"}

\* A request arrives (requests are numbered in order of arrival) and, for
\* the gated routes, validate_token runs before the handler body; a rejected
\* request is answered 401 and never reaches the body.
RequestWith(r, KS, HS) ==
    /\ Serving
    /\ pc[r] = "idle"
    /\ \A q \in Reqs : q < r => pc[q] # "idle"
    /\ \E k \in KS, h \in HS, b \in Payloads :
          LET v == validate_token(h, API_TOKEN.value)
              pass == ~GateApplies(k) \/ v.ok IN
          /\ kind' = [kind EXCEPT ![r] = k]
          /\ header' = [header EXCEPT ![r] = IF k = "hello" THEN NoHeader ELSE h]
          /\ body' = [body EXCEPT ![r] = IF k = "create" /\ pass THEN b ELSE body[r]]
          /\ IF pass
             THEN /\ pc' = [pc EXCEPT ![r] = "body"]
                  /\ resp' = resp
             ELSE /\ pc' = [pc EXCEPT ![r] = "done"]
                  /\ resp' = [resp EXCEPT ![r] = Resp(v.status, v.detail, <<>>, 0)]
    /\ UNCHANGED <<API_TOKEN, CONTACTS_FILE, clock, loop, contacts,
                   deleted_contacts, acked, lastSave>>

Request(r) == RequestWith(r, Kinds, Headers)

\* GET /hello
hello(r) ==
    /\ pc[r] = "body" /\ kind[r] = "hello"
    /\ EventLoopFree(r)
    /\ pc' = [pc EXCEPT ![r] = "done"]
    /\ resp' = [resp EXCEPT ![r] = Resp(200, "Hello! from Nitesh", <<>>, 0)]
    /\ UNCHANGED <<API_TOKEN, CONTACTS_FILE, clock, loop, kind, header, body,
                   contacts, deleted_contacts, acked, lastSave>>

\* the records flagged isDeleted left out of the listing
get_contactsMutant(r) ==
    /\ pc[r] = "body" /\ kind[r] = "list"
    /\ EventLoopFree(r)
    /\ LET l == load_contacts(CONTACTS_FILE)
           Kept(c) == ~c.isDeleted IN
          resp' = [resp EXCEPT ![r] =
                     IF l.raised THEN Resp(500, "Error loading contacts", <<>>, 0)
                     ELSE Resp(200, "", SelectSeq(l.value, Kept), 0)]
    /\ pc' = [pc EXCEPT ![r] = "done"]
    /\ UNCHANGED <<API_TOKEN, CONTACTS_FILE, clock, loop, kind, header, body,
                   contacts, deleted_contacts, acked, lastSave>>

\* GET /api/contacts
get_contacts(r) ==
    /\ pc[r] = "body" /\ kind[r] = "list"
    /\ EventLoopFree(r)
    /\ LET l == load_contacts(CONTACTS_FILE) IN
          resp' = [resp EXCEPT ![r] =
                     IF l.raised THEN Resp(500, "Error loading contacts", <<>>, 0)
                     ELSE Resp(200, "", l.value, 0)]
    /\ pc' = [pc EXCEPT ![r] = "done"]
    /\ UNCHANGED <<API_TOKEN, CONTACTS_FILE, clock, loop, kind, header, body,
                   contacts, deleted_contacts, acked, lastSave>>

\* (the new record put in front of the loaded ones)
create_contactMutant(r) ==
    /\ pc[r] = "body" /\ kind[r] = "create"
    /\ EventLoopFree(r)
    /\ LET l == load_contacts(CONTACTS_FILE) IN
          IF l.raised
          THEN /\ pc' = [pc EXCEPT ![r] = "done"]
               /\ resp' = [resp EXCEPT ![r] = Resp(500, "Error saving contact", <<>>, 0)]
               /\ UNCHANGED <<clock, loop, contacts>>
          ELSE LET contact_data == [id |-> next_id(l.value),
                                    createdAt |-> clock,
                                    name |-> body[r].name,
                                    phone |-> body[r].phone,
                                    isDeleted |-> body[r].isDeleted] IN
               /\ contacts' = [contacts EXCEPT ![r] = <<contact_data>> \o l.value]
               /\ clock' = clock + 1
               /\ loop' = r
               /\ pc' = [pc EXCEPT ![r] = "save"]
               /\ resp' = resp
    /\ UNCHANGED <<API_TOKEN, CONTACTS_FILE, kind, header, body,
                   deleted_contacts, acked, lastSave>>

\* POST /api/contact, lines 106-122: load, next id, timestamp, append
create_contact(r) ==
    /\ pc[r] = "body" /\ kind[r] = "create"
    /\ EventLoopFree(r)
    /\ LET l == load_contacts(CONTACTS_FILE) IN
          IF l.raised
          THEN /\ pc' = [pc EXCEPT ![r] = "done"]
               /\ resp' = [resp EXCEPT ![r] = Resp(500, "Error saving contact", <<>>, 0)]
               /\ UNCHANGED <<clock, loop, contacts>>
          ELSE LET contact_data == [id |-> next_id(l.value),
                                    createdAt |-> clock,
                                    name |-> body[r].name,
                                    phone |-> body[r].phone,
                                    isDeleted |-> body[r].isDeleted] IN
               /\ contacts' = [contacts EXCEPT ![r] = Append(l.value, contact_data)]
               /\ clock' = clock + 1
               /\ loop' = r
               /\ pc' = [pc EXCEPT ![r] = "save"]
               /\ resp' = resp
    /\ UNCHANGED <<API_TOKEN, CONTACTS_FILE, kind, header, body,
                   deleted_contacts, acked, lastSave>>

\* DELETE /api/contacts, lines 146-156: load, early return, copy, clear
delete_all_contacts(r) ==
    /\ pc[r] = "body" /\ kind[r] = "clear"
    /\ EventLoopFree(r)
    /\ LET l == load_contacts(CONTACTS_FILE) IN
          IF l.raised
          THEN /\ pc' = [pc EXCEPT ![r] = "done"]
               /\ resp' = [resp EXCEPT ![r] = Resp(500, "Error deleting contacts", <<>>, 0)]
               /\ UNCHANGED <<loop, contacts, deleted_contacts>>
          ELSE IF l.value = <<>>
          THEN /\ pc' = [pc EXCEPT ![r] = "done"]
               /\ resp' = [resp EXCEPT ![r] = Resp(200, "No contacts to delete", <<>>, 0)]
               /\ UNCHANGED <<loop, contacts, deleted_contacts>>
          ELSE /\ deleted_contacts' = [deleted_contacts EXCEPT ![r] = l.value]
               /\ contacts' = [contacts EXCEPT ![r] = <<>>]
               /\ loop' = r
               /\ pc' = [pc EXCEPT ![r] = "save"]
               /\ resp' = resp
    /\ UNCHANGED <<API_TOKEN, CONTACTS_FILE, clock, kind, header, body,
                   acked, lastSave>>

\* ------------------------------------------------------------ save_contacts
\* open(CONTACTS_FILE, 'w') truncates the file in place
save_open(r) ==
    /\ pc[r] = "save"
    /\ CONTACTS_FILE' = FileOf(<<>>)
    /\ lastSave' = [by |-> r, phase |-> "running",
                    prior |-> load_contacts(CONTACTS_FILE).value,
                    new |-> contacts[r]]
    /\ pc' = [pc EXCEPT ![r] = "opened"]
    /\ UNCHANGED <<API_TOKEN, clock, loop, kind, header, body, contacts,
                   deleted_contacts, resp, acked>>

\* the handler's `except Exception` turns any failure into a 500
ErrorDetail(k) == IF k = "create" THEN "Error saving contact"
                  ELSE "Error deleting contacts"

\* (a failing handler that never gives the event loop back)
Raise500Mutant(r) ==
    /\ pc' = [pc EXCEPT ![r] = "done"]
    /\ resp' = [resp EXCEPT ![r] = Resp(500, ErrorDetail(kind[r]), <<>>, 0)]
    /\ contacts' = [contacts EXCEPT ![r] = <<>>]
    /\ deleted_contacts' = [deleted_contacts EXCEPT ![r] = <<>>]
    /\ loop' = loop

Raise500(r) ==
    /\ pc' = [pc EXCEPT ![r] = "done"]
    /\ resp' = [resp EXCEPT ![r] = Resp(500, ErrorDetail(kind[r]), <<>>, 0)]
    /\ contacts' = [contacts EXCEPT ![r] = <<>>]
    /\ deleted_contacts' = [deleted_contacts EXCEPT ![r] = <<>>]
    /\ loop' = 0

\* open() raises (OSError): nothing was written
save_open_fail(r) ==
    /\ pc[r] = "save"
    /\ Raise500(r)
    /\ UNCHANGED <<API_TOKEN, CONTACTS_FILE, clock, kind, header, body,
                   acked, lastSave>>

\* json.dump writes the text piece by piece; part of it reaches the file
save_flush(r) ==
    /\ pc[r] = "opened"
    /\ \E t \in PartialTexts(json_dump(contacts[r])) \ {<<>>} :
          CONTACTS_FILE' = FileOf(t)
    /\ pc' = [pc EXCEPT ![r] = "flushed"]
    /\ UNCHANGED <<API_TOKEN, clock, loop, kind, header, body, contacts,
                   deleted_contacts, resp, acked, lastSave>>

\* a write raises (OSError): the file keeps what had reached it
save_fail(r) ==
    /\ pc[r] \in {"opened", "flushed"}
    /\ Raise500(r)
    /\ lastSave' = [lastSave EXCEPT !.phase = "failed"]
    /\ UNCHANGED <<API_TOKEN, CONTACTS_FILE, clock, kind, header, body, acked>>

\* the with block ends: the whole text is in the file; the handler returns
save_close(r) ==
    /\ pc[r] \in {"opened", "flushed"}
    /\ CONTACTS_FILE' = FileOf(json_dump(contacts[r]))
    /\ lastSave' = [lastSave EXCEPT !.phase = "done"]
    /\ IF kind[r] = "create"
       THEN LET contact_data == contacts[r][Len(contacts[r])] IN
            /\ resp' = [resp EXCEPT ![r] = Resp(200, "", <<contact_data>>, 0)]
            /\ acked' = Append(acked, contact_data.id)
       ELSE /\ resp' = [resp EXCEPT ![r] =
                          Resp(200, "All contacts deleted successfully",
                               deleted_contacts[r], Len(deleted_contacts[r]))]
            /\ acked' = acked
    /\ pc' = [pc EXCEPT ![r] = "done"]
    /\ contacts' = [contacts EXCEPT ![r] = <<>>]
    /\ deleted_contacts' = [deleted_contacts EXCEPT ![r] = <<>>]
    /\ loop' = 0
    /\ UNCHANGED <<API_TOKEN, clock, kind, header, body>>

Next ==
    \E r \in Reqs :
        \/ Request(r)
        \/ hello(r)
        \/ get_contacts(r)
        \/ create_contact(r)
        \/ delete_all_contacts(r)
        \/ save_open(r)
        \/ save_open_fail(r)
        \/ save_flush(r)
        \/ save_fail(r)
        \/ save_close(r)

Spec == Init /\ [][Next]_vars

\* uvicorn's event loop runs every handler that is ready, and each file
\* operation returns or raises: a handler step that stays possible is taken.
\* Clients are not obliged to send anything.  The requests are the authorized
\* ones that use the store, issued against an absent artifact; what a record
\* holds has no part in whether a handler returns, so one payload is sent.
HandlerStep(r) ==
    \/ get_contacts(r)
    \/ create_contact(r)
    \/ delete_all_contacts(r)
    \/ save_open(r)
    \/ save_open_fail(r)
    \/ save_flush(r)
    \/ save_fail(r)
    \/ save_close(r)
StoreRequest(r) ==
    /\ RequestWith(r, {"list", "create", "clear"}, {Hdr(Bearer \o Secret)})
    /\ body'[r].name = "Ann"
InitFair == Init /\ API_TOKEN = Hdr(Secret) /\ CONTACTS_FILE = Absent
NextFair == \E r \in Reqs : StoreRequest(r) \/ HandlerStep(r)
FairSpec ==
    InitFair /\ [][NextFair]_vars /\ \A r \in Reqs : WF_vars(HandlerStep(r))

\* ----------------------------------------------------------- vocabulary
AllDone == \A r \in Reqs : pc[r] = "done"
Accepted(r) == validate_token(header[r], API_TOKEN.value).ok
Succeeded(r, k) == pc[r] = "done" /\ kind[r] = k /\ resp[r].status = 200
NoServerError == \A r \in Reqs : resp[r].status # 500
NoClearAll == \A r \in Reqs : kind[r] = "clear" => pc[r] = "idle" \/ resp[r].status = 401
Creates == { r \in Reqs : Succeeded(r, "create") }
IdOf(r) == resp[r].records[1].id
Durable == load_contacts(CONTACTS_FILE)
InSeq(x, seq) == \E i \in 1..Len(seq) : seq[i] = x
Quiescent == lastSave.phase # "running"

\* C1: N creates issued concurrently against an empty store, with no
\* clear-all and no failed request, are assigned exactly the identifiers
\* 1..N once all have completed: no duplicate and no gap.
C1_ConcurrentCreatesGetOneToN ==
    (AllDone /\ NoClearAll /\ NoServerError)
        => /\ { IdOf(r) : r \in Creates } = 1..Cardinality(Creates)
           /\ \A r, q \in Creates : r # q => IdOf(r) # IdOf(q)

C1_Witness ==
    /\ AllDone /\ NoServerError
    /\ Creates = Reqs
    /\ { IdOf(r) : r \in Creates } = 1..NReq

\* C2: with no clear-all, once all requests have completed every create that
\* was answered with success has its record in the durable collection, and
\* the collection holds exactly as many records as there were such creates.
C2_NoCreateLost ==
    (AllDone /\ NoClearAll)
        => /\ \A r \in Creates : InSeq(resp[r].records[1], Durable.value)
           /\ Len(Durable.value) = Cardinality(Creates)

\* C3: at every point during a save, a load returns either the complete
\* collection stored before the save or the complete collection being saved
\* (a load that raises is counted as returning the empty collection).
C3_SaveAllOrNothing ==
    lastSave.phase = "running"
        => Durable.value \in {lastSave.prior, lastSave.new}

\* C4: after a save that failed part-way the durable artifact still holds
\* the collection that was stored before the attempt (a load that raises is
\* counted as returning the empty collection).
C4_FailedSaveKeepsStore ==
    lastSave.phase = "failed" => Durable.value = lastSave.prior

\* ------------------------------------------- the gate on its own inputs
\* Pieces of header text: the scheme prefix, two token texts, the prefix in
\* lower case and the prefix without its space.
HeaderPieces == { Bearer, <<"t">>, <<"x">>,
                  <<"b", "e", "a", "r", "e", "r", " ">>,
                  <<"B", "e", "a", "r", "e", "r">> }
SecretPieces == { Bearer, <<"t">>, <<"x">> }
TextsOf(pieces, n) ==
    { Flatten(ps) : ps \in UNION { [1..k -> pieces] : k \in 1..n } }
AuthHeaders == { NoHeader, Hdr(<<>>) }
               \cup { Hdr(t) : t \in TextsOf(HeaderPieces, MaxHeaderPieces) }
AuthSecrets == TextsOf(SecretPieces, MaxSecretPieces)

InitAuth ==
    /\ API_TOKEN \in { Hdr(s) : s \in AuthSecrets }
    /\ CONTACTS_FILE = Absent
    /\ clock = 1
    /\ loop = 0
    /\ pc = [r \in Reqs |-> "idle"]
    /\ kind = [r \in Reqs |-> "hello"]
    /\ header = [r \in Reqs |-> NoHeader]
    /\ body = [r \in Reqs |-> CHOOSE p \in Payloads : p.name = "Ann"]
    /\ contacts = [r \in Reqs |-> <<>>]
    /\ deleted_contacts = [r \in Reqs |-> <<>>]
    /\ resp = [r \in Reqs |-> NoResp]
    /\ acked = <<>>
    /\ lastSave = NoSave

\* one request to a gated route, with any of the header texts
AuthRequest == RequestWith(1, {"list"}, AuthHeaders)

SpecAuth == InitAuth /\ [][AuthRequest]_vars

Gated(r) == pc[r] # "idle" /\ kind[r] \in {"create", "list", "clear"}

\* C5: validate accepts a header if and only if it is exactly "Bearer "
\* followed by the configured secret.
C5_AcceptsExactlyBearerSecret ==
    \A r \in Reqs :
        Gated(r) => (resp[r].status # 401
                        <=> header[r] = Hdr(Bearer \o API_TOKEN.value))

\* C6: a rejected credential is answered 401 with the message of the first
\* failing cause, in the order absent or empty, then wrong scheme, then
\* wrong token; the three messages are pairwise distinct.
FirstCause(h) ==
    IF ~h.present \/ h.value = <<>> THEN MsgRequired
    ELSE IF ~startswith(h.value, Bearer) THEN MsgFormat
    ELSE MsgInvalid

C6_RejectionMessageByFirstCause ==
    /\ MsgRequired # MsgFormat /\ MsgFormat # MsgInvalid /\ MsgRequired # MsgInvalid
    /\ \A r \in Reqs :
          (Gated(r) /\ pc[r] = "done" /\ resp[r].status \notin {200, 500})
              => /\ resp[r].status = 401
                 /\ resp[r].detail = FirstCause(header[r])

C6_Witness ==
    /\ Gated(1) /\ resp[1].status = 401
    /\ resp[1].detail = MsgInvalid
    /\ startswith(header[1].value, Bearer)

\* C7: a create, list or clear-all request whose credential the gate rejects
\* never runs its handler: it is answered 401, loads nothing, returns no
\* record and performs no save.
C7_RejectedRequestTouchesNothing ==
    \A r \in Reqs :
        (Gated(r) /\ ~Accepted(r))
            => /\ pc[r] = "done"
               /\ resp[r].status = 401
               /\ resp[r].records = <<>>
               /\ contacts[r] = <<>> /\ deleted_contacts[r] = <<>>
               /\ lastSave.by # r

C7_Witness ==
    \E r \in Reqs :
        /\ kind[r] = "clear" /\ resp[r].status = 401
        /\ Durable.value # <<>>
        /\ lastSave.phase = "done"

\* C8 as stated: every successful create is given an identifier strictly
\* greater than that of every earlier successful create, also of creates
\* whose records a clear-all removed since (runs without a failed request).
C8_IdsNeverReused ==
    NoServerError
        => \A i, j \in 1..Len(acked) : i < j => acked[i] < acked[j]

\* C8 amended: a create is given an identifier strictly greater than that
\* of every record in the collection it was added to, so identifiers are
\* unique across the stored collection; on an emptied collection it is 1.
C8_CreateIdAboveStoredIds ==
    /\ (lastSave.phase # "none" /\ kind[lastSave.by] = "create")
          => LET n == lastSave.new[Len(lastSave.new)].id IN
             /\ \A i \in 1..Len(lastSave.prior) : lastSave.prior[i].id < n
             /\ lastSave.prior = <<>> => n = 1
    /\ \A i, j \in 1..Len(Durable.value) :
          i # j => Durable.value[i].id # Durable.value[j].id

C8_Witness ==
    /\ lastSave.phase = "done" /\ kind[lastSave.by] = "create"
    /\ Len(lastSave.prior) >= 2
    /\ Len(Durable.value) = Len(lastSave.prior) + 1

\* C9: a successful clear-all leaves the durable collection empty, reports
\* as count the length of its snapshot, and its snapshot is the collection
\* stored just before; whenever no save is under way, every record whose
\* create was acknowledged is in the durable collection or in the snapshot
\* of exactly one clear-all.
SnapshotsHolding(rec) ==
    { c \in Reqs : Succeeded(c, "clear") /\ InSeq(rec, resp[c].records) }

C9_ClearAllAccountsForEveryRecord ==
    /\ \A c \in Reqs :
          Succeeded(c, "clear") => resp[c].deleted_count = Len(resp[c].records)
    /\ (lastSave.phase = "done" /\ kind[lastSave.by] = "clear")
          => /\ Durable.value = <<>>
             /\ resp[lastSave.by].records = lastSave.prior
    /\ Quiescent
          => \A r \in Creates :
                \/ InSeq(resp[r].records[1], Durable.value)
                \/ Cardinality(SnapshotsHolding(resp[r].records[1])) = 1

\* C10: an artifact that is absent or cannot be parsed never makes a request
\* fail: every authorized list is answered with success, and a create that
\* finds such an artifact is given identifier 1 and leaves exactly its one
\* record in the durable collection.
Parseable(file) ==
    /\ file.exists
    /\ \A i \in 1..Len(file.text) : file.text[i] # BadByteTok
    /\ json_load(file.text).ok

C10_UnparseableStoreActsEmpty ==
    /\ \A r \in Reqs :
          (Gated(r) /\ kind[r] = "list" /\ pc[r] = "done" /\ Accepted(r))
              => resp[r].status = 200
    /\ (lastSave.phase = "done" /\ kind[lastSave.by] = "create"
            /\ lastSave.prior = <<>>)
          => /\ lastSave.new[1].id = 1
             /\ Durable.value = lastSave.new

\* --------------------------------------- the store on any stored collection
\* contacts.json may hold any array of records when the process starts:
\* identifiers with gaps, out of order or repeated, optional fields null.
StoredIds == {1, 2, 5}
StoredRecords ==
    { [id |-> i, createdAt |-> 0, name |-> p.name, phone |-> p.phone,
       isDeleted |-> p.isDeleted] : i \in StoredIds, p \in Payloads }
StoredCollections == UNION { [1..n -> StoredRecords] : n \in 0..MaxStored }

InitStore ==
    /\ API_TOKEN = Hdr(Secret)
    /\ CONTACTS_FILE \in { FileOf(json_dump(c)) : c \in StoredCollections }
    /\ clock = 1
    /\ loop = 0
    /\ pc = [r \in Reqs |-> "idle"]
    /\ kind = [r \in Reqs |-> "hello"]
    /\ header = [r \in Reqs |-> NoHeader]
    /\ body = [r \in Reqs |-> CHOOSE p \in Payloads : p.name = "Ann"]
    /\ contacts = [r \in Reqs |-> <<>>]
    /\ deleted_contacts = [r \in Reqs |-> <<>>]
    /\ resp = [r \in Reqs |-> NoResp]
    /\ acked = <<>>
    /\ lastSave = NoSave

\* one request served on the collection found
NextStore ==
    \/ Request(1)
    \/ hello(1)
    \/ get_contacts(1)
    \/ create_contact(1)
    \/ delete_all_contacts(1)
    \/ save_open(1)
    \/ save_open_fail(1)
    \/ save_flush(1)
    \/ save_fail(1)
    \/ save_close(1)

SpecStore == InitStore /\ [][NextStore]_vars

\* C11: after save(c) has completed, load() returns a collection equal to
\* c: the same records, in the same order, with the same field values.
C11_SaveThenLoadRoundTrip ==
    lastSave.phase = "done"
        => /\ ~Durable.raised
           /\ Len(Durable.value) = Len(lastSave.new)
           /\ \A i \in 1..Len(lastSave.new) : Durable.value[i] = lastSave.new[i]

C11_Witness ==
    /\ lastSave.phase = "done"
    /\ Len(lastSave.new) = MaxStored + 1
    /\ lastSave.new[1].id > lastSave.new[2].id
    /\ \E i \in 1..Len(lastSave.new) : lastSave.new[i].phone = None
    /\ Durable.value = lastSave.new

\* C12: with no failed request, an authorized list returns exactly the
\* records created since the last clear-all, one entry per record, in the
\* order of their creation, whatever their isDeleted flag.
Cleared(rec) ==
    \E c \in Reqs : Succeeded(c, "clear") /\ InSeq(rec, resp[c].records)
CreatedAndKept == { rec \in { resp[r].records[1] : r \in Creates } : ~Cleared(rec) }
RECURSIVE InCreationOrder(_)
InCreationOrder(recs) ==
    IF recs = {} THEN <<>>
    ELSE LET first == CHOOSE x \in recs :
                          \A y \in recs : x.createdAt <= y.createdAt IN
         <<first>> \o InCreationOrder(recs \ {first})

C12_ListReturnsAllInCreationOrder ==
    [][\A r \in Reqs :
          (kind[r] = "list" /\ pc[r] = "body" /\ pc'[r] = "done" /\ NoServerError')
              => /\ resp'[r].status = 200
                 /\ resp'[r].records = InCreationOrder(CreatedAndKept)]_vars

C12_Witness ==
    \E r \in Reqs :
        /\ Succeeded(r, "list") /\ NoServerError
        /\ Len(resp[r].records) = 2
        /\ resp[r].records[1].isDeleted /\ ~resp[r].records[2].isDeleted
        /\ resp[r].records = Durable.value

\* C13: a clear-all that finds the store empty (artifact absent, unparseable
\* or holding no record) answers success with count 0 and the
\* nothing-to-delete message, and leaves the store empty and untouched, so a
\* second clear-all right after a first one changes nothing.
EmptyStore == ~Parseable(CONTACTS_FILE) \/ Durable.value = <<>>

C13_ClearAllOnEmptyStoreSucceeds ==
    [][\A r \in Reqs :
          (kind[r] = "clear" /\ pc[r] = "body" /\ pc'[r] = "done" /\ EmptyStore)
              => /\ resp'[r] = Resp(200, "No contacts to delete", <<>>, 0)
                 /\ CONTACTS_FILE' = CONTACTS_FILE
                 /\ Durable'.value = <<>>]_vars

\* C14: a create is answered with success only when its record is in the
\* durable collection, and when it is answered 500 the durable collection is
\* the one stored before the request and does not hold the new record.
StoredBefore(r) ==
    IF pc[r] \in {"opened", "flushed"} THEN lastSave.prior ELSE Durable.value

C14_CreateNoPartialSuccess ==
    [][\A r \in Reqs :
          (kind[r] = "create" /\ pc[r] \notin {"idle", "done"} /\ pc'[r] = "done")
              => /\ resp'[r].status = 200
                    => /\ ~Durable'.raised
                       /\ InSeq(resp'[r].records[1], Durable'.value)
                 /\ resp'[r].status = 500
                    => /\ Durable'.value = StoredBefore(r)
                       /\ pc[r] # "body"
                            => ~InSeq(contacts[r][Len(contacts[r])], Durable'.value)]_vars

\* C15: whenever no save is under way, the records stored before the last
\* save are still in the durable collection with the same fields at the same
\* positions, unless that save was a clear-all, which leaves no record.
KeepsAll(old, new) ==
    /\ Len(old) <= Len(new)
    /\ \A i \in 1..Len(old) : new[i] = old[i]

C15_StoredRecordsNeverChange ==
    (Quiescent /\ lastSave.phase # "none")
        => \/ KeepsAll(lastSave.prior, Durable.value)
           \/ kind[lastSave.by] = "clear" /\ Durable.value = <<>>

\* C16: under fair scheduling every request that has been issued is
\* eventually answered, whatever the other requests are doing; none waits
\* forever for the store or for the event loop.
C16_EveryRequestCompletes ==
    \A r \in Reqs : (pc[r] # "idle") ~> (pc[r] = "done" /\ resp[r] # NoResp)

C16_Witness ==
    \E q \in Reqs :
        /\ loop = q /\ pc[q] \in {"opened", "flushed"}
        /\ \E r, s \in Reqs \ {q} :
              /\ r # s
              /\ pc[r] = "body" /\ kind[r] = "create"
              /\ pc[s] = "body" /\ kind[s] = "clear"

\* C17: when the secret is not configured the process serves nothing: no
\* request is ever taken up or answered and the artifact is never saved to or
\* changed; and the secret never changes while the process runs.
SecretConfigured == API_TOKEN.present /\ API_TOKEN.value # <<>>

C17_NoSecretNoService ==
    /\ [](~SecretConfigured
            => /\ \A r \in Reqs : pc[r] = "idle" /\ resp[r] = NoResp
               /\ loop = 0
               /\ lastSave = NoSave)
    /\ [][/\ API_TOKEN' = API_TOKEN
          /\ ~SecretConfigured => CONTACTS_FILE' = CONTACTS_FILE]_vars

C17_Witness ==
    /\ ~API_TOKEN.present
    /\ CONTACTS_FILE.exists
    /\ \A r \in Reqs : ~ENABLED Request(r)

\* C18: whatever collection a create loads, the identifier it assigns is 1
\* when the collection is empty and otherwise the greatest identifier present
\* plus one, also when the identifiers present have gaps or are out of order.
Greatest(ids) == CHOOSE m \in ids : \A n \in ids : n <= m

C18_IdIsMaxPlusOne ==
    (lastSave.phase # "none" /\ kind[lastSave.by] = "create")
        => LET loaded == lastSave.prior
               assigned == lastSave.new[Len(lastSave.new)].id IN
           /\ Len(lastSave.new) = Len(loaded) + 1
           /\ assigned = IF loaded = <<>> THEN 1
                         ELSE Greatest({ loaded[i].id : i \in 1..Len(loaded) }) + 1

C18_Witness ==
    /\ lastSave.phase = "done" /\ kind[lastSave.by] = "create"
    /\ Len(lastSave.prior) = 2
    /\ lastSave.prior[1].id = 5 /\ lastSave.prior[2].id = 1
    /\ resp[lastSave.by].status = 200
    /\ IdOf(lastSave.by) = 6

\* C19: in every state reached from an empty store, the identifiers of the
\* durable collection are positive and strictly increasing by position (hence
\* pairwise distinct, and the last record carries the greatest).
C19_DurableIdsIncrease ==
    LET stored == Durable.value IN
    \A i, j \in 1..Len(stored) :
        /\ stored[i].id > 0
        /\ i < j => stored[i].id < stored[j].id

C19_Witness ==
    /\ Quiescent
    /\ Len(Durable.value) >= 2
    /\ Durable.value[Len(Durable.value)].id = Len(Durable.value)
    /\ \E r \in Reqs : Succeeded(r, "list")

\* C20: a list, a hello and a clear-all that finds no record leave the
\* artifact exactly as it was; the artifact changes only in the save of a
\* create or of a clear-all that found records, and a request whose save does
\* not succeed leaves the durable collection as it was before it.
ReadOnlyStep(r) ==
    /\ pc[r] = "body" /\ pc'[r] = "done"
    /\ kind[r] \in {"hello", "list", "clear"}

C20_OnlySuccessfulWritesChangeArtifact ==
    [][/\ \A r \in Reqs : ReadOnlyStep(r) => CONTACTS_FILE' = CONTACTS_FILE
       /\ CONTACTS_FILE' # CONTACTS_FILE
            => /\ loop \in Reqs
               /\ pc[loop] \in {"save", "opened", "flushed"}
               /\ \/ kind[loop] = "create"
                  \/ kind[loop] = "clear" /\ deleted_contacts[loop] # <<>>
       /\ \A r \in Reqs :
             (pc[r] \in {"opened", "flushed"} /\ pc'[r] = "done"
                 /\ resp'[r].status # 200)
                 => Durable'.value = lastSave.prior]_vars

====
